---- MODULE Spec2Model ----
(***************************************************************************)
(* Model of the data-acquisition and result-caching service layer of       *)
(* Stock-Analyst: MockStockService (src/services/mockStockService.ts)       *)
(* on top of LSTMModelService (src/services/lstmModelService.ts), of the    *)
(* model configuration (src/config/modelConfig.ts) and of the loads of     *)
(* StockDetailsScreen (src/unnamed/part_002).                              *)
(*                                                                         *)
(* Units.  Prices are integers in thousandths (150 is 150000), Math.random *)
(* values and scores are integers in hundredths (0.82 is 82), times are    *)
(* milliseconds, a sentiment weight is the exact fraction [n, d].          *)
(* JSON values and JavaScript results are tagged records, so that null,    *)
(* undefined, a list and an object are distinct values.                    *)
(***************************************************************************)
EXTENDS Integers, Sequences, FiniteSets, TLC

\* ------------------------------------------------------------- the state
VARIABLES
  env,        \* the scenario: who calls, and what the backend may answer
  now,        \* Date.now()
  ticks,      \* how often the clock has advanced
  cache,      \* MockStockService.cache: key -> [data, timestamp]
  calls,      \* the calls of getStockInfo / getPredictions / getNews in flight
  started,    \* how many calls have been started
  clears,     \* how many times clearCache has run
  last,       \* the call that resolved last, since the last clearCache
  lastClear,  \* the last clearCache, until the next cache.set
  swIn,       \* the argument of calculateSentimentWeights, applied on its own
  swOut,      \* its result
  cfg,        \* the model configuration objects and the calls made on them
  screen      \* the state of StockDetailsScreen and its loads in flight

vars == <<env, now, ticks, cache, calls, started, clears, last, lastClear,
          swIn, swOut, cfg, screen>>

\* ------------------------------------------------------------- bounds
MaxCalls == 2
MaxTicks == 2
MaxClears == 1
MaxArticles == 2
MaxLoads == 4

\* ---------------------------------------------------- program constants
cacheTimeout == 5 * 60 * 1000

HourMs == 60 * 60 * 1000

\* ------------------------------------------------------------ the inputs
Tickers == {"aapl", "AAPL", "msft"}
Slots == {1, 2, 3}
Categories == {"stock", "predictions", "news"}
RandVals == {0, 99}
\* The clock is read at 0, TTL - 1, TTL, 2 TTL - 1, ...: the i-th advance
TickStep(i) == IF i % 2 = 1 THEN cacheTimeout - 1 ELSE 1
Labels == {"positive", "negative", "neutral"}

\* ------------------------------------------------- JavaScript values
None == [kind |-> "none"]
JNull == [kind |-> "null"]
JUndefined == [kind |-> "undefined"]
JEmptyObject == [kind |-> "object"]
JList(s) == [kind |-> "list", items |-> s]
Throw == [kind |-> "throw"]
Value(v) == [kind |-> "value", v |-> v]
Rejected == [kind |-> "rejected"]

IsList(x) == x.kind = "list"

\* ticker.toUpperCase()
toUpperCase(t) ==
  CASE t = "aapl" -> "AAPL"
    [] t = "msft" -> "MSFT"
    [] OTHER -> t

\* The i-th call of Math.random() made by one generator run; a run draws
\* from a stream s = [a, b] that alternates between two values of [0, 1).
Streams == [a : RandVals, b : RandVals]
Alternating == {s \in Streams : s.a # s.b}
Rnd(s, i) == IF i % 2 = 0 THEN s.a ELSE s.b

Max2(a, b) == IF a >= b THEN a ELSE b
Min2(a, b) == IF a <= b THEN a ELSE b

\* ------------------------------------------------------ calendar dates
\* Days are counted from 1 January 1970 and times of day in minutes.  A time
\* zone is [std, dst, from]: local time is UTC + dst hours on the local days
\* from `from` on and UTC + std hours before; the clock of the model runs
\* after the change, so dst is the offset of every instant it shows.
DayMin == 24 * 60
UTC == [std |-> 0, dst |-> 0, from |-> 0]
\* America/Los_Angeles on the day after daylight saving time has begun
Pacific == [std |-> -8, dst |-> -7, from |-> -1]
Zones == {UTC, Pacific}

utcOffset(zone, localDay) ==
  IF localDay >= zone.from THEN zone.dst ELSE zone.std

\* new Date(t) read in local time, in minutes
LocalMinutes(zone, t) == t \div (60 * 1000) + zone.dst * 60

\* date.getDate() of new Date(t): the local calendar day
Today(zone, t) == LocalMinutes(zone, t) \div DayMin

\* date.setDate(date.getDate() + i): the instant, in minutes, with the local
\* wall-clock time of t on the local day i days from today
setDate(zone, t, i) ==
  LET day == Today(zone, t) + i
  IN day * DayMin + (LocalMinutes(zone, t) % DayMin)
       - utcOffset(zone, day) * 60

\* date.toISOString().split('T')[0]: the UTC calendar day of an instant
toISODate(minutes) == minutes \div DayMin

\* ------------------------------------------- LSTMModelService: fallbacks
getMockStockData(ticker, s) ==
  LET basePrice == Rnd(s, 0) * 2000 + 50000
      change == (Rnd(s, 1) - 50) * 100
  IN [kind |-> "quote",
      symbol |-> toUpperCase(ticker),
      name |-> toUpperCase(ticker) \o " Corporation",
      currentPrice |-> basePrice,
      change |-> change,
      volume |-> Rnd(s, 2) * 1000000,
      marketCap |-> Rnd(s, 3) * 10]

RECURSIVE mockHistoricalLoop(_, _, _, _, _, _, _)
mockHistoricalLoop(i, k, currentPrice, s, zone, t, data) ==
  IF i < 0 THEN data
  ELSE LET price == currentPrice + (Rnd(s, k) - 50) * 50
           open == price + (Rnd(s, k + 1) - 50) * 20
           close == price
           high == Max2(open, close) + Rnd(s, k + 2) * 30
           low == Min2(open, close) - Rnd(s, k + 3) * 30
           bar == [date |-> toISODate(setDate(zone, t, 0 - i)),
                   open |-> open, high |-> high,
                   low |-> low, close |-> close,
                   volume |-> Rnd(s, k + 4) * 100000,
                   adjustedClose |-> close]
       IN mockHistoricalLoop(i - 1, k + 5, price, s, zone, t,
                             Append(data, bar))

\* k0: the number of Math.random() calls the caller has already made
getMockHistoricalData(ticker, s, k0, t) ==
  JList(mockHistoricalLoop(30, k0, 100000, s, env.zone, t, <<>>))

getMockNewsData(ticker, t) ==
  JList(<<
    [id |-> "1", headline |-> <<"earnings", ticker>>, summary |-> "s1",
     sentiment |-> "positive", sentimentScore |-> 78, finbertScore |-> 82,
     source |-> "Financial Times", publishedAt |-> t - 2 * HourMs],
    [id |-> "2", headline |-> <<"volatility", ticker>>, summary |-> "s2",
     sentiment |-> "neutral", sentimentScore |-> -5, finbertScore |-> -2,
     source |-> "Reuters", publishedAt |-> t - 5 * HourMs],
    [id |-> "3", headline |-> <<"regulatory", ticker>>, summary |-> "s3",
     sentiment |-> "negative", sentimentScore |-> -42, finbertScore |-> -38,
     source |-> "Bloomberg", publishedAt |-> t - 8 * HourMs]>>)

MockSentimentWeights ==
  [positive |-> [n |-> 4, d |-> 10], negative |-> [n |-> 3, d |-> 10],
   neutral |-> [n |-> 3, d |-> 10], overallSentiment |-> [n |-> 15, d |-> 100]]

mockPredictionPoint_swapped(i, s, t) ==
  LET predictedPrice == 150000 + (Rnd(s, 2 * (i - 1)) - 50) * 100
  IN [date |-> toISODate(setDate(env.zone, t, i)),
      predictedPrice |-> predictedPrice,
      confidence |-> Rnd(s, 2 * (i - 1) + 1) * 3 + 700,
      upperBound |-> (predictedPrice * 95) \div 100,
      lowerBound |-> (predictedPrice * 105) \div 100]

mockPredictionPoint(i, s, t) ==
  LET predictedPrice == 150000 + (Rnd(s, 2 * (i - 1)) - 50) * 100
  IN [date |-> toISODate(setDate(env.zone, t, i)),
      predictedPrice |-> predictedPrice,
      confidence |-> Rnd(s, 2 * (i - 1) + 1) * 3 + 700,
      upperBound |-> (predictedPrice * 105) \div 100,
      lowerBound |-> (predictedPrice * 95) \div 100]

getMockPredictionResult(ticker, s, t) ==
  [kind |-> "result",
   symbol |-> ticker,
   currentPrice |-> 150000,
   historical |-> getMockHistoricalData(ticker, s, 6, t),
   predictions |-> JList([i \in 1..3 |-> mockPredictionPoint(i, s, t)]),
   sentimentWeights |-> MockSentimentWeights,
   trend |-> "bullish",
   modelMetrics |-> [accuracy |-> 85, mse |-> 234, rmse |-> 153,
                     mae |-> 121, r2Score |-> 78],
   confidence |-> 820]

\* --------------------------------- LSTMModelService: sentiment weighting
EmptyPrior_thirds ==
  [positive |-> [n |-> 33, d |-> 100], negative |-> [n |-> 33, d |-> 100],
   neutral |-> [n |-> 33, d |-> 100], overallSentiment |-> [n |-> 0, d |-> 1]]

EmptyPrior ==
  [positive |-> [n |-> 33, d |-> 100], negative |-> [n |-> 33, d |-> 100],
   neutral |-> [n |-> 34, d |-> 100], overallSentiment |-> [n |-> 0, d |-> 1]]

RECURSIVE sentimentLoop_sentimentScore(_, _, _)
sentimentLoop_sentimentScore(items, i, acc) ==
  IF i > Len(items) THEN acc
  ELSE LET news == items[i]
           counted ==
             CASE news.sentiment = "positive" ->
                    [acc EXCEPT !.positiveCount = @ + 1]
               [] news.sentiment = "negative" ->
                    [acc EXCEPT !.negativeCount = @ + 1]
               [] news.sentiment = "neutral" ->
                    [acc EXCEPT !.neutralCount = @ + 1]
               [] OTHER -> acc
       IN sentimentLoop_sentimentScore(items, i + 1,
            [counted EXCEPT !.totalSentimentScore = @ + news.sentimentScore])

RECURSIVE sentimentLoop(_, _, _)
sentimentLoop(items, i, acc) ==
  IF i > Len(items) THEN acc
  ELSE LET news == items[i]
           counted ==
             CASE news.sentiment = "positive" ->
                    [acc EXCEPT !.positiveCount = @ + 1]
               [] news.sentiment = "negative" ->
                    [acc EXCEPT !.negativeCount = @ + 1]
               [] news.sentiment = "neutral" ->
                    [acc EXCEPT !.neutralCount = @ + 1]
               [] OTHER -> acc
       IN sentimentLoop(items, i + 1,
            [counted EXCEPT !.totalSentimentScore = @ + news.finbertScore])

calculateSentimentWeights_noGuard(newsData) ==
  IF ~IsList(newsData) THEN Throw
  ELSE LET acc == sentimentLoop(newsData.items, 1,
                    [positiveCount |-> 0, negativeCount |-> 0,
                     neutralCount |-> 0, totalSentimentScore |-> 0])
           total == Len(newsData.items)
       IN Value([positive |-> [n |-> acc.positiveCount, d |-> total],
                 negative |-> [n |-> acc.negativeCount, d |-> total],
                 neutral |-> [n |-> acc.neutralCount, d |-> total],
                 overallSentiment |-> [n |-> acc.totalSentimentScore, d |-> total]])

\* newsData.length of null or undefined throws a TypeError
calculateSentimentWeights(newsData) ==
  IF ~IsList(newsData) THEN Throw
  ELSE IF Len(newsData.items) = 0 THEN Value(EmptyPrior)
  ELSE LET acc == sentimentLoop(newsData.items, 1,
                    [positiveCount |-> 0, negativeCount |-> 0,
                     neutralCount |-> 0, totalSentimentScore |-> 0])
           total == Len(newsData.items)
       IN Value([positive |-> [n |-> acc.positiveCount, d |-> total],
                 negative |-> [n |-> acc.negativeCount, d |-> total],
                 neutral |-> [n |-> acc.neutralCount, d |-> total],
                 overallSentiment |-> [n |-> acc.totalSentimentScore, d |-> total]])

\* --------------------------------------------------- the backend's answers
BackendQuote ==
  [kind |-> "quote", symbol |-> "AAPL", name |-> "Apple Inc.",
   currentPrice |-> 180000, change |-> 1200, volume |-> 52000000,
   marketCap |-> 2800]

BackendBar(d) ==
  [date |-> d, open |-> 179000 + d * 100, high |-> 181000 + d * 100,
   low |-> 178000 + d * 100, close |-> 180000 + d * 100, volume |-> 1000,
   adjustedClose |-> 180000 + d * 100]

BackendArticle(i, label, score) ==
  [id |-> i, headline |-> <<"backend", i>>, summary |-> "b",
   sentiment |-> label, sentimentScore |-> 10, finbertScore |-> score,
   source |-> "Wire", publishedAt |-> 0]

BackendPoint(i) ==
  [date |-> i, predictedPrice |-> 180000 + i * 1000, confidence |-> 900,
   upperBound |-> 185000 + i * 1000, lowerBound |-> 175000 + i * 1000]

BackendForecast(k) ==
  [kind |-> "forecast",
   predictions |-> JList([i \in 1..k |-> BackendPoint(i)]),
   metrics |-> [accuracy |-> 90, mse |-> 100, rmse |-> 100, mae |-> 90,
                r2Score |-> 80],
   trend |-> "bearish",
   confidence |-> 915]

\* response.json() of a 200 answer: any JSON value, the expected shape or not
QuoteBodies == {JNull, BackendQuote}
HistoricalBodies ==
  {JNull, JList([i \in 1..2 |-> BackendBar(i - 2)]),
   JList([i \in 1..5 |-> BackendBar(i - 5)])}
NewsBodies ==
  {JNull, JList(<<>>), JList(<<BackendArticle("7", "mixed", 20)>>),
   JList(<<BackendArticle("8", "positive", 80),
           BackendArticle("9", "negative", -40)>>)}
ForecastBodies == {JNull, JEmptyObject, BackendForecast(3), BackendForecast(2)}

\* How one fetch settles: fetch() rejects, response.ok is false,
\* response.json() rejects, or a body is parsed.
Outcomes(bodies) ==
  {[kind |-> "neterr"], [kind |-> "status"], [kind |-> "unparsable"]}
    \cup {[kind |-> "ok", body |-> b] : b \in bodies}

\* What a call keeps of a settled fetch: the parsed body, or that it failed
Settled(o) == IF o.kind = "ok" THEN o ELSE [kind |-> "failed"]

\* ---------------------------------------- LSTMModelService: the fetches
getStockData(ticker, o, s) ==
  CASE o.kind = "neterr" -> getMockStockData(ticker, s)
    [] o.kind = "status" -> getMockStockData(ticker, s)
    [] o.kind = "unparsable" -> getMockStockData(ticker, s)
    [] OTHER -> o.body

getHistoricalData(ticker, o, s, t) ==
  CASE o.kind = "neterr" -> getMockHistoricalData(ticker, s, 0, t)
    [] o.kind = "status" -> getMockHistoricalData(ticker, s, 0, t)
    [] o.kind = "unparsable" -> getMockHistoricalData(ticker, s, 0, t)
    [] OTHER -> o.body

getNewsWithSentiment(ticker, o, t) ==
  CASE o.kind = "neterr" -> getMockNewsData(ticker, t)
    [] o.kind = "status" -> getMockNewsData(ticker, t)
    [] o.kind = "unparsable" -> getMockNewsData(ticker, t)
    [] OTHER -> o.body

\* x.f of null or undefined throws a TypeError
CanRead(x) == x.kind \notin {"null", "undefined"}
Get(x, f) == IF f \in DOMAIN x THEN x[f] ELSE JUndefined

generatePredictionsResult_partial(ticker, stockData, historicalData, sentimentWeights, o, s, t) ==
  IF ~CanRead(stockData) \/ (o.kind = "ok" /\ ~CanRead(o.body))
  THEN getMockPredictionResult(ticker, s, t)
  ELSE IF o.kind # "ok"
       THEN [getMockPredictionResult(ticker, s, t) EXCEPT
               !.currentPrice = stockData.currentPrice]
       ELSE [kind |-> "result",
             symbol |-> ticker,
             currentPrice |-> stockData.currentPrice,
             historical |-> historicalData,
             predictions |-> Get(o.body, "predictions"),
             modelMetrics |-> Get(o.body, "metrics"),
             sentimentWeights |-> sentimentWeights,
             trend |-> Get(o.body, "trend"),
             confidence |-> Get(o.body, "confidence")]

\* generatePredictions from the forecast answer on: lines 208-228
generatePredictionsResult(ticker, stockData, historicalData, sentimentWeights, o, s, t) ==
  IF o.kind # "ok" THEN getMockPredictionResult(ticker, s, t)
  ELSE IF ~CanRead(stockData) \/ ~CanRead(o.body)
       THEN getMockPredictionResult(ticker, s, t)
       ELSE [kind |-> "result",
             symbol |-> ticker,
             currentPrice |-> stockData.currentPrice,
             historical |-> historicalData,
             predictions |-> Get(o.body, "predictions"),
             modelMetrics |-> Get(o.body, "metrics"),
             sentimentWeights |-> sentimentWeights,
             trend |-> Get(o.body, "trend"),
             confidence |-> Get(o.body, "confidence")]

\* ----------------------------------------- MockStockService: pure parts
cacheKey_tickerOnly(category, ticker) == ticker

cacheKey(category, ticker) == category \o "_" \o ticker
AllKeys == {cacheKey(cat, t) : cat \in Categories, t \in Tickers}

isFresh_inclusive(entries, key, t) ==
  key \in DOMAIN entries /\ t - entries[key].timestamp <= cacheTimeout

\* cached && Date.now() - cached.timestamp < this.cacheTimeout
isFresh(entries, key, t) ==
  key \in DOMAIN entries /\ t - entries[key].timestamp < cacheTimeout

\* this.cache.set(cacheKey, { data, timestamp: Date.now() })
cacheSet(entries, key, data, t) ==
  [k \in DOMAIN entries \cup {key} |->
     IF k = key THEN [data |-> data, timestamp |-> t] ELSE entries[k]]

getCacheStats(entries) ==
  [size |-> Cardinality(DOMAIN entries), keys |-> DOMAIN entries]

\* toLocaleDateString('en-US', {month: 'short', day: 'numeric'}) of the day
\* d, counted from 1 January 1970; right for December 1969 and January 1970
DateLabel(d) ==
  IF d < 0 THEN [month |-> "Dec", day |-> 32 + d]
  ELSE [month |-> "Jan", day |-> d + 1]

SliceLast(seq, k) == SubSeq(seq, Max2(1, Len(seq) - k + 1), Len(seq))

toStockInfo(stockData, id) ==
  IF ~CanRead(stockData) THEN Throw
  ELSE Value([kind |-> "StockInfo", id |-> id,
              symbol |-> stockData.symbol,
              name |-> stockData.name,
              currentPrice |-> stockData.currentPrice,
              change |-> stockData.change,
              volume |-> stockData.volume,
              marketCap |-> stockData.marketCap])

toNewsItem(news) ==
  [id |-> news.id, headline |-> news.headline, summary |-> news.summary,
   sentiment |-> news.sentiment, sentimentScore |-> news.finbertScore,
   source |-> news.source, publishedAt |-> news.publishedAt]

toNewsItems(newsData, id) ==
  IF ~IsList(newsData) THEN Throw
  ELSE Value([kind |-> "NewsItems", id |-> id,
              items |-> [i \in 1..Len(newsData.items) |->
                           toNewsItem(newsData.items[i])]])

chartDates(t) ==
  [i \in 1..7 |-> IF i <= 4 THEN DateLabel(Today(env.zone, t) - (4 - i))
                  ELSE DateLabel(Today(env.zone, t) + (i - 4))]

toPredictionData(modelResult, t, id) ==
  IF ~IsList(modelResult.historical) THEN Throw
  ELSE IF ~IsList(modelResult.predictions) THEN Throw
  ELSE LET last4 == SliceLast(modelResult.historical.items, 4)
           points == modelResult.predictions.items
       IN Value([kind |-> "PredictionData", id |-> id,
                 historical |-> [i \in 1..Len(last4) |-> last4[i].close],
                 predictions |-> [i \in 1..Len(points) |->
                                    points[i].predictedPrice],
                 dates |-> chartDates(t),
                 trend |-> CASE modelResult.trend = "bullish" -> "Bullish"
                             [] modelResult.trend = "bearish" -> "Bearish"
                             [] OTHER -> "Sideways",
                 confidence |-> modelResult.confidence \div 10])

getFallbackStockInfo_asTyped(ticker, s, id) ==
  [kind |-> "StockInfo", id |-> id,
   symbol |-> ticker,
   name |-> ticker \o " Corporation",
   currentPrice |-> Rnd(s, 0) * 2000 + 50000,
   change |-> (Rnd(s, 1) - 50) * 100,
   volume |-> Rnd(s, 2) * 1000000,
   marketCap |-> Rnd(s, 3) * 10]

getFallbackStockInfo(ticker, s, id) ==
  [kind |-> "StockInfo", id |-> id,
   symbol |-> toUpperCase(ticker),
   name |-> toUpperCase(ticker) \o " Corporation",
   currentPrice |-> Rnd(s, 0) * 2000 + 50000,
   change |-> (Rnd(s, 1) - 50) * 100,
   volume |-> Rnd(s, 2) * 1000000,
   marketCap |-> Rnd(s, 3) * 10]

RECURSIVE fallbackPredictionLoop(_, _, _, _)
fallbackPredictionLoop(i, lastPrice, s, predictions) ==
  IF i >= 3 THEN predictions
  ELSE LET trendFactor == IF Rnd(s, 4 + 2 * i) > 50 THEN 102 ELSE 98
           noise == (Rnd(s, 5 + 2 * i) - 50) * 50
           price == (lastPrice * trendFactor) \div 100 + noise
       IN fallbackPredictionLoop(i + 1, price, s, Append(predictions, price))

getFallbackPredictions(ticker, s, t, id) ==
  LET historical == [i \in 1..4 |-> 100000 + (Rnd(s, i - 1) - 50) * 100]
      predictions == fallbackPredictionLoop(0, historical[4], s, <<>>)
  IN [kind |-> "PredictionData", id |-> id,
      historical |-> historical,
      predictions |-> predictions,
      dates |-> [i \in 1..7 |-> DateLabel(Today(env.zone, t) - (7 - i))],
      trend |-> IF predictions[3] > predictions[1] THEN "Bullish"
                ELSE "Bearish",
      confidence |-> (Rnd(s, 10) * 20) \div 100 + 75]

getFallbackNews(ticker, t, id) ==
  [kind |-> "NewsItems", id |-> id,
   items |-> <<
     [id |-> "1", headline |-> <<"earnings", ticker>>, summary |-> "S1",
      sentiment |-> "positive", sentimentScore |-> 78,
      source |-> "Financial Times", publishedAt |-> t - 2 * HourMs],
     [id |-> "2", headline |-> <<"volatility", ticker>>, summary |-> "S2",
      sentiment |-> "neutral", sentimentScore |-> -5,
      source |-> "Reuters", publishedAt |-> t - 5 * HourMs],
     [id |-> "3", headline |-> <<"regulatory", ticker>>, summary |-> "S3",
      sentiment |-> "negative", sentimentScore |-> -42,
      source |-> "Bloomberg", publishedAt |-> t - 8 * HourMs]>>]

\* The catch blocks of getStockInfo, getPredictions and getNews
catchStockInfo(ticker, s, id) == Value(getFallbackStockInfo(ticker, s, id))
catchPredictions_rethrow(ticker, s, t, id) == Rejected

catchPredictions(ticker, s, t, id) ==
  Value(getFallbackPredictions(ticker, s, t, id))
catchNews(ticker, t, id) == Value(getFallbackNews(ticker, t, id))

clearCache_stockOnly(entries) ==
  [k \in DOMAIN entries \ {cacheKey("stock", t) : t \in Tickers} |->
     entries[k]]

\* this.cache.clear()
clearCache(entries) == [k \in {} |-> None]

\* ------------------------------------------------ config/modelConfig.ts
\* Ratios (dropout, learningRate, validationSplit, testSize) are in
\* thousandths.  NaN is the one number that every comparison answers false
\* for; Lt, Le and Ge are JavaScript's <, <= and >=.
NaN == 0 - 1000000
Lt(a, b) == a # NaN /\ b # NaN /\ a < b
Le(a, b) == a # NaN /\ b # NaN /\ a <= b
Ge(a, b) == a # NaN /\ b # NaN /\ a >= b

\* The nested objects that defaultModelConfig refers to, as the module
\* creates them.  An object of type ModelConfig holds references to them.
defaultObjects ==
  [lstm |-> [sequenceLength |-> 60, hiddenUnits |-> 128, layers |-> 2,
             dropout |-> 200, recurrentDropout |-> 200],
   training |-> [epochs |-> 100, batchSize |-> 32, learningRate |-> 1,
                 validationSplit |-> 200],
   data |-> [features |-> <<"close", "volume", "high", "low", "open",
                            "sentiment_score", "news_volume", "volatility",
                            "rsi", "macd", "bollinger_upper",
                            "bollinger_lower">>,
             testSize |-> 200, predictionDays |-> 3],
   news |-> [maxArticles |-> 50],
   api |-> [cacheTimeout |-> 300000]]

defaultModelConfig ==
  [lstm |-> "lstm", training |-> "training", data |-> "data",
   news |-> "news", api |-> "api"]

Environments == {"development", "production", "testing"}

\* What a reader of config sees: each reference followed into objects
Deref(config, objects) == [k \in DOMAIN config |-> objects[config[k]]]

\* { ...defaultModelConfig } copies the references; the assignments go
\* through them.  Returns the config and the objects as the call leaves them.
getModelConfig(environment, objects) ==
  LET config == [k \in DOMAIN defaultModelConfig |-> defaultModelConfig[k]]
  IN [config |-> config,
      objects |->
        CASE environment = "development" ->
               [objects EXCEPT ![config.training].epochs = 10,
                               ![config.lstm].sequenceLength = 30,
                               ![config.news].maxArticles = 10]
          [] environment = "testing" ->
               [objects EXCEPT ![config.training].epochs = 5,
                               ![config.lstm].sequenceLength = 10,
                               ![config.news].maxArticles = 5,
                               ![config.api].cacheTimeout = 1000]
          [] OTHER -> objects]

\* errors.push(message) when the check fires
pushIf(errors, fires, message) ==
  IF fires THEN Append(errors, message) ELSE errors

\* config is what the reader of a ModelConfig sees (Deref)
validateModelConfig(config) ==
  LET e1 == pushIf(<<>>, Lt(config.lstm.sequenceLength, 1),
                   "LSTM sequence length must be at least 1")
      e2 == pushIf(e1, Lt(config.lstm.hiddenUnits, 1),
                   "LSTM hidden units must be at least 1")
      e3 == pushIf(e2, Lt(config.lstm.layers, 1),
                   "LSTM layers must be at least 1")
      e4 == pushIf(e3, Lt(config.lstm.dropout, 0)
                         \/ Ge(config.lstm.dropout, 1000),
                   "LSTM dropout must be between 0 and 1")
      e5 == pushIf(e4, Lt(config.training.epochs, 1),
                   "Training epochs must be at least 1")
      e6 == pushIf(e5, Lt(config.training.batchSize, 1),
                   "Training batch size must be at least 1")
      e7 == pushIf(e6, Le(config.training.learningRate, 0),
                   "Learning rate must be positive")
      e8 == pushIf(e7, Lt(config.training.validationSplit, 0)
                         \/ Ge(config.training.validationSplit, 1000),
                   "Validation split must be between 0 and 1")
      e9 == pushIf(e8, Len(config.data.features) = 0,
                   "At least one feature must be specified")
      e10 == pushIf(e9, Lt(config.data.testSize, 0)
                          \/ Ge(config.data.testSize, 1000),
                    "Test size must be between 0 and 1")
      e11 == pushIf(e10, Lt(config.data.predictionDays, 1),
                    "Prediction days must be at least 1")
  IN e11

\* The state of the module: the objects as they are now, the last result of
\* getModelConfig, and one application of validateModelConfig.
IdleConfig ==
  [objects |-> defaultObjects, got |-> None, vIn |-> None, vOut |-> None]

\* The configurations handed to validateModelConfig: every field at a value
\* inside its range or at one outside it, and the default configuration.
ConfigInputs ==
  {[lstm |-> [sequenceLength |-> sl, hiddenUnits |-> hu, layers |-> ly,
              dropout |-> dr, recurrentDropout |-> 200],
    training |-> [epochs |-> ep, batchSize |-> bs, learningRate |-> lr,
                  validationSplit |-> vs],
    data |-> [features |-> ft, testSize |-> tz, predictionDays |-> pd],
    news |-> defaultObjects.news,
    api |-> defaultObjects.api] :
     sl \in {0, 1, NaN}, hu \in {0, 128}, ly \in {0, 2},
     dr \in {0 - 1, 0, 1000, NaN}, ep \in {0, 100}, bs \in {0, 32},
     lr \in {0, 1}, vs \in {200, 1000}, ft \in {<<>>, <<"close">>},
     tz \in {0 - 1, 999}, pd \in {0, 3}}
  \cup {Deref(defaultModelConfig, defaultObjects)}

\* ------------------------------------------------- StockDetailsScreen
\* What a load sets a piece of state to: the service's answer for the
\* ticker the load was started with.
Loaded(category, load) ==
  [kind |-> "data", category |-> category, ticker |-> load.ticker,
   load |-> load.no]

\* The component after it has mounted with ticker t and its effect has run
Mounted(t) ==
  [ticker |-> t, stockData |-> JNull, predictions |-> JNull,
   news |-> JList(<<>>), loading |-> TRUE, started |-> 1,
   loads |-> {[no |-> 1, ticker |-> t]}]

\* loadStockData up to its await: setLoading(true), the three calls started
loadStockData(s) ==
  [s EXCEPT !.loading = TRUE, !.started = @ + 1,
            !.loads = @ \cup {[no |-> s.started + 1, ticker |-> s.ticker]}]

\* ------------------------------------------------------------- the calls
\* A call: its arguments, where it is suspended (pc), the backend requests
\* it has issued (req), whether its caller has gone away (abandoned), the
\* results of the awaits it has passed (q, h, n, sw, f, mr), what it returned (ret), and
\* what it saw when it read the cache: hit, the age of the entry (-1: none),
\* the previous call (prev) and, when no cache.set has followed the last
\* clearCache, how many entries that removed (cleared, else -1).
\* The backend's endpoints, and how many requests a call has sent to each
Endpoints == {"stock", "historical", "news", "predict"}

\* await fetch(...): one more request to the endpoint
fetch(sent, endpoints) ==
  [e \in Endpoints |-> IF e \in endpoints THEN sent[e] + 1 ELSE sent[e]]

catchFetch_retry(sent, endpoint, o) ==
  IF o.kind = "ok" THEN sent ELSE fetch(sent, {endpoint})

\* The requests sent once a fetch has settled with o: the catch block of
\* each of the four returns its fallback, and sends nothing.
catchFetch(sent, endpoint, o) == sent

IdleCall ==
  [op |-> "none", ticker |-> "", no |-> 0, pc |-> "idle",
   startAt |-> 0, hit |-> FALSE, age |-> -1, ts |-> 0, req |-> {},
   sent |-> [e \in Endpoints |-> 0],
   abandoned |-> FALSE, over |-> {}, clearsAt |-> 0, found |-> {},
   q |-> None, h |-> None, n |-> None, sw |-> None, f |-> None, mr |-> None,
   ret |-> None, prev |-> None, cleared |-> -1]

Ok(bodies) == {[kind |-> "ok", body |-> b] : b \in bodies}

\* The cache scenario: calls for two tickers, one after the other, while the
\* clock advances and clearCache runs at any point of a call; every
\* operation can take each of its paths (cached value, fetched value,
\* value of a catch); a failed request is a non-ok status, and the requests
\* of generatePredictions are answered.
CacheEnv ==
  [tickers |-> {"aapl", "AAPL"}, slots |-> {1}, calls |-> MaxCalls,
   zone |-> UTC, start |-> 0,
   streams |-> {[a |-> 0, b |-> 99]},
   stock |-> {[kind |-> "status"]} \cup Ok(QuoteBodies),
   news |-> {[kind |-> "status"]} \cup Ok({JNull, JList(<<>>)}),
   gatherStock |-> Ok({BackendQuote}),
   gatherHistorical |-> Ok({JList([i \in 1..5 |-> BackendBar(i - 5)])}),
   gatherNews |-> Ok({JList(<<>>)}),
   forecast |-> Ok({JEmptyObject, BackendForecast(3)})]

\* The data scenario: every answer of the backend to every request, at
\* 23:30 UTC (16:30 in Los Angeles)
DataStart == 23 * HourMs + HourMs \div 2
DataEnv ==
  [tickers |-> {"aapl", "AAPL"}, slots |-> {1}, calls |-> MaxCalls,
   zone |-> UTC, start |-> DataStart,
   streams |-> Streams,
   stock |-> Outcomes(QuoteBodies),
   news |-> Outcomes(NewsBodies),
   gatherStock |-> Outcomes(QuoteBodies),
   gatherHistorical |-> Outcomes(HistoricalBodies),
   gatherNews |-> Outcomes(NewsBodies),
   forecast |-> Outcomes(ForecastBodies)]

Free(c) == calls[c].pc = "idle"
NextSlot(c, among) ==
  c \in among /\ Free(c) /\ \A d \in among : d < c => ~Free(d)

InitWith(e) ==
  /\ env = e
  /\ now = e.start
  /\ ticks = 0
  /\ cache = [k \in {} |-> None]
  /\ calls = [c \in Slots |-> IdleCall]
  /\ started = 0
  /\ clears = 0
  /\ last = IdleCall
  /\ lastClear = None
  /\ screen = Mounted("AAPL")

Init ==
  InitWith(CacheEnv) /\ swIn = JList(<<>>) /\ swOut = None /\ cfg = IdleConfig
InitData ==
  /\ \E z \in Zones : InitWith([DataEnv EXCEPT !.zone = z])
  /\ swIn = JList(<<>>)
  /\ swOut = None
  /\ cfg = IdleConfig

\* The call in slot c resolves with ret (a Value, or Rejected); entries is
\* the cache it leaves and ts the timestamp of the entry that holds the value.
Resolve(c, rec, ret, entries, ts) ==
  /\ calls' = [calls EXCEPT ![c] = IdleCall]
  /\ last' = [rec EXCEPT
                !.pc = "done", !.ret = ret, !.ts = ts,
                !.prev = IF rec.prev = None THEN None
                         ELSE [rec.prev EXCEPT
                                 !.ts = 0,
                                 !.inWindow = now - rec.prev.ts < cacheTimeout]]
  /\ cache' = entries
  /\ lastClear' = IF entries = cache THEN lastClear ELSE None

\* What a call that starts now remembers of the call that resolved last,
\* when that was a call of the same operation and ticker: the value it
\* returned (id), whether it fetched, whether it started less than a TTL ago
\* (within), when its value was cached (ts) and whether that is less than a
\* TTL ago (fresh), and whether clearCache ran while it was in flight
\* (acrossClear).  When the call resolves, inWindow tells whether that is
\* within a TTL of ts.
Previous(op, ticker) ==
  IF last.op = op /\ last.ticker = ticker
  THEN [id |-> IF last.ret.kind = "value" THEN last.ret.v.id ELSE 0,
        fetched |-> ~last.hit,
        within |-> now - last.startAt < cacheTimeout,
        ts |-> last.ts,
        fresh |-> now - last.ts < cacheTimeout,
        acrossClear |-> last.clearsAt < clears,
        inWindow |-> FALSE]
  ELSE None

Requests_historicalOnly(op) ==
  CASE op = "stock" -> {"stock"}
    [] op = "news" -> {"news"}
    [] OTHER -> {"historical"}

\* The backend requests a call has issued when it first suspends: getStockInfo
\* and getNews one fetch, getPredictions the three fetches of Promise.all
Requests(op) ==
  CASE op = "stock" -> {"stock"}
    [] op = "news" -> {"news"}
    [] OTHER -> {"stock", "historical", "news"}

\* The slots whose call has missed on key and has not completed yet
InFlight(key) ==
  {d \in Slots : calls[d].pc # "idle"
                   /\ cacheKey(calls[d].op, calls[d].ticker) = key}

\* The synchronous head of the three operations: the cache lookup.  A call
\* that misses is noted in over of the calls in flight on its key, and notes
\* them in its own.
Begin(c, op, ticker, missPc) ==
  LET key == cacheKey(op, ticker)
      rec == [IdleCall EXCEPT
                !.op = op, !.ticker = ticker, !.no = started + 1,
                !.startAt = now, !.clearsAt = clears,
                !.found = {k \in DOMAIN cache : isFresh(cache, k, now)},
                !.age = IF key \in DOMAIN cache
                        THEN now - cache[key].timestamp ELSE -1,
                !.prev = Previous(op, ticker),
                !.cleared = IF lastClear = None THEN -1
                            ELSE lastClear.removed]
  IN /\ started < env.calls
     /\ ticker \in env.tickers
     /\ started' = started + 1
     /\ IF isFresh(cache, key, now)
        THEN Resolve(c, [rec EXCEPT !.hit = TRUE], Value(cache[key].data),
                     cache, cache[key].timestamp)
        ELSE /\ calls' = [d \in Slots |->
                  IF d = c
                  THEN [rec EXCEPT !.pc = missPc, !.req = Requests(op),
                          !.sent = fetch(@, Requests(op)),
                          !.over = {calls[e].no : e \in InFlight(key)}]
                  ELSE IF d \in InFlight(key)
                       THEN [calls[d] EXCEPT !.over = @ \cup {rec.no}]
                       ELSE calls[d]]
             /\ UNCHANGED <<cache, last, lastClear>>
     /\ UNCHANGED <<env, now, ticks, clears, swIn, swOut, cfg, screen>>

\* The tail of the three operations: cache.set and return, or the catch.
Finish(c, rec, projected, caught) ==
  IF projected.kind = "throw"
  THEN Resolve(c, rec, caught, cache, now)
  ELSE Resolve(c, rec, projected,
               cacheSet(cache, cacheKey(rec.op, rec.ticker), projected.v, now),
               now)

\* ---------------------------------------------------------- getStockInfo
GetStockInfo(c, ticker) ==
  /\ NextSlot(c, env.slots)
  /\ Begin(c, "stock", ticker, "stockData")

StockDataSettles(c, o, s) ==
  LET rec == calls[c]
      stockData == getStockData(rec.ticker, o, s)
  IN /\ rec.pc = "stockData"
     /\ Finish(c, [rec EXCEPT !.q = stockData,
                              !.sent = catchFetch(@, "stock", o)],
               toStockInfo(stockData, rec.no),
               catchStockInfo(rec.ticker, s, rec.no))
     /\ UNCHANGED <<env, now, ticks, started, clears, swIn, swOut, cfg, screen>>

\* --------------------------------------------------------------- getNews
GetNews(c, ticker) ==
  /\ NextSlot(c, env.slots)
  /\ Begin(c, "news", ticker, "newsData")

NewsDataSettles(c, o) ==
  LET rec == calls[c]
      newsData == getNewsWithSentiment(rec.ticker, o, now)
  IN /\ rec.pc = "newsData"
     /\ Finish(c, [rec EXCEPT !.n = newsData,
                              !.sent = catchFetch(@, "news", o)],
               toNewsItems(newsData, rec.no),
               catchNews(rec.ticker, now, rec.no))
     /\ UNCHANGED <<env, now, ticks, started, clears, swIn, swOut, cfg, screen>>

\* -------------------------------------------------------- getPredictions
GetPredictions(c, ticker) ==
  /\ NextSlot(c, env.slots)
  /\ Begin(c, "predictions", ticker, "gather")

PromiseAll_race(rec) == \E x \in {rec.q, rec.h, rec.n} : x # None

\* await Promise.all([...]) resumes when each of the three has settled
PromiseAll(rec) == None \notin {rec.q, rec.h, rec.n}

\* After one of the three fetches of Promise.all has settled: when all have,
\* the weights are computed and the forecast is requested, or the catch of
\* generatePredictions answers.
Gathered(c, rec, s) ==
  /\ calls' = [calls EXCEPT ![c] =
       IF ~PromiseAll(rec) THEN rec
       ELSE LET w == calculateSentimentWeights(rec.n)
            IN IF w.kind = "throw"
               THEN [rec EXCEPT !.pc = "modelResult",
                       !.mr = getMockPredictionResult(rec.ticker, s, now)]
               ELSE [rec EXCEPT !.pc = "forecast", !.sw = w.v,
                       !.req = @ \cup {"predict"},
                       !.sent = fetch(@, {"predict"})]]
  /\ UNCHANGED <<env, now, ticks, cache, started, clears, last, lastClear,
                 swIn, swOut, cfg, screen>>

GatherStockData(c, o, s) ==
  /\ calls[c].pc = "gather"
  /\ calls[c].q = None
  /\ Gathered(c, [calls[c] EXCEPT
                    !.q = getStockData(calls[c].ticker, o, s),
                    !.sent = catchFetch(@, "stock", o)], s)

GatherHistoricalData(c, o, s) ==
  /\ calls[c].pc = "gather"
  /\ calls[c].h = None
  /\ Gathered(c, [calls[c] EXCEPT
                    !.h = getHistoricalData(calls[c].ticker, o, s, now),
                    !.sent = catchFetch(@, "historical", o)], s)

GatherNews(c, o, s) ==
  /\ calls[c].pc = "gather"
  /\ calls[c].n = None
  /\ Gathered(c, [calls[c] EXCEPT
                    !.n = getNewsWithSentiment(calls[c].ticker, o, now),
                    !.sent = catchFetch(@, "news", o)], s)

ForecastSettles(c, o, s) ==
  LET rec == calls[c]
  IN /\ rec.pc = "forecast"
     /\ calls' = [calls EXCEPT ![c] =
          [rec EXCEPT !.pc = "modelResult", !.f = Settled(o),
             !.sent = catchFetch(@, "predict", o),
             !.mr = generatePredictionsResult(rec.ticker, rec.q, rec.h,
                                              rec.sw, o, s, now)]]
     /\ UNCHANGED <<env, now, ticks, cache, started, clears, last, lastClear,
                    swIn, swOut, cfg, screen>>

\* getPredictions resumes with the result of generatePredictions
PredictionsContinue(c, s) ==
  LET rec == calls[c]
  IN /\ rec.pc = "modelResult"
     /\ Finish(c, rec,
               toPredictionData(rec.mr, now, rec.no),
               catchPredictions(rec.ticker, s, now, rec.no))
     /\ UNCHANGED <<env, now, ticks, started, clears, swIn, swOut, cfg, screen>>

\* ------------------------------------------------- the caller goes away
\* StockDetailsScreen is unmounted, or shows another ticker, while its call
\* is pending: the effect has no cleanup and the service call takes no
\* abort signal, so nothing of the call changes.
Abandon(c) ==
  /\ calls[c].pc # "idle"
  /\ ~calls[c].abandoned
  /\ calls' = [calls EXCEPT ![c].abandoned = TRUE]
  /\ UNCHANGED <<env, now, ticks, cache, started, clears, last, lastClear,
                 swIn, swOut, cfg, screen>>

\* ------------------------------------------------------------ clearCache
ClearCache ==
  /\ clears < MaxClears
  /\ clears' = clears + 1
  /\ lastClear' = [removed |-> getCacheStats(cache).size]
  /\ cache' = clearCache(cache)
  /\ last' = IdleCall
  /\ UNCHANGED <<env, now, ticks, calls, started, swIn, swOut, cfg, screen>>

\* ------------------------------------------------------------- the clock
Tick ==
  /\ ticks < MaxTicks
  /\ ticks' = ticks + 1
  /\ now' = now + TickStep(ticks')
  /\ UNCHANGED <<env, cache, calls, started, clears, last, lastClear,
                 swIn, swOut, cfg, screen>>

Next ==
  \/ \E c \in env.slots, t \in Tickers : GetStockInfo(c, t)
  \/ \E c \in env.slots, t \in Tickers : GetNews(c, t)
  \/ \E c \in env.slots, t \in Tickers : GetPredictions(c, t)
  \/ \E c \in env.slots, s \in env.streams, o \in env.stock :
       StockDataSettles(c, o, s)
  \/ \E c \in env.slots, s \in env.streams, o \in env.gatherStock :
       GatherStockData(c, o, s)
  \/ \E c \in env.slots, s \in env.streams, o \in env.gatherHistorical :
       GatherHistoricalData(c, o, s)
  \/ \E c \in env.slots, o \in env.news : NewsDataSettles(c, o)
  \/ \E c \in env.slots, s \in env.streams, o \in env.gatherNews :
       GatherNews(c, o, s)
  \/ \E c \in env.slots, s \in env.streams, o \in env.forecast :
       ForecastSettles(c, o, s)
  \/ \E c \in env.slots, s \in env.streams : PredictionsContinue(c, s)
  \/ ClearCache
  \/ Tick

Spec == Init /\ [][Next]_vars

\* One call, of any operation, with every answer of the backend
NextData ==
  \/ \E c \in env.slots, t \in Tickers : started = 0 /\ GetStockInfo(c, t)
  \/ \E c \in env.slots, t \in Tickers : started = 0 /\ GetNews(c, t)
  \/ \E c \in env.slots, t \in Tickers : started = 0 /\ GetPredictions(c, t)
  \/ \E c \in env.slots, s \in env.streams, o \in env.stock :
       StockDataSettles(c, o, s)
  \/ \E c \in env.slots, s \in env.streams, o \in env.gatherStock :
       GatherStockData(c, o, s)
  \/ \E c \in env.slots, s \in env.streams, o \in env.gatherHistorical :
       GatherHistoricalData(c, o, s)
  \/ \E c \in env.slots, o \in env.news : NewsDataSettles(c, o)
  \/ \E c \in env.slots, s \in env.streams, o \in env.gatherNews :
       GatherNews(c, o, s)
  \/ \E c \in env.slots, s \in env.streams, o \in env.forecast :
       ForecastSettles(c, o, s)
  \/ \E c \in env.slots, s \in env.streams : PredictionsContinue(c, s)
  \/ \E c \in env.slots : Abandon(c)

SpecData == InitData /\ [][NextData]_vars

\* The synthetic quotes: getStockInfo calls, one after the other, for any
\* ticker, while every quote request fails or answers null, with every
\* stream of random values
QuoteEnv ==
  [tickers |-> Tickers, slots |-> {1}, calls |-> MaxCalls,
   zone |-> UTC, start |-> 0,
   streams |-> Streams,
   stock |-> {[kind |-> "status"]} \cup Ok({JNull}),
   news |-> {}, gatherStock |-> {}, gatherHistorical |-> {},
   gatherNews |-> {}, forecast |-> {}]

InitQuote ==
  InitWith(QuoteEnv) /\ swIn = JList(<<>>) /\ swOut = None /\ cfg = IdleConfig

NextQuote ==
  \/ \E c \in env.slots, t \in Tickers : GetStockInfo(c, t)
  \/ \E c \in env.slots, s \in env.streams, o \in env.stock :
       StockDataSettles(c, o, s)

SpecQuote == InitQuote /\ [][NextQuote]_vars

\* calculateSentimentWeights on its own, for every article list of at most
\* MaxArticles articles: any label the JSON may carry, any two scores
ArticleInputs ==
  {[id |-> "a", headline |-> <<"backend", "a">>, summary |-> "b",
    sentiment |-> l, sentimentScore |-> ss, finbertScore |-> fs,
    source |-> "Wire", publishedAt |-> 0] :
     l \in Labels \cup {"mixed"}, ss \in {-5, 78}, fs \in {-40, 0, 80}}

SentimentInputs ==
  {JNull} \cup {JList(items) :
     items \in UNION {[1..k -> ArticleInputs] : k \in 0..MaxArticles}}

InitSentiment ==
  /\ InitWith(DataEnv)
  /\ swIn \in SentimentInputs
  /\ swOut = None
  /\ cfg = IdleConfig

ApplySentimentWeights ==
  /\ swOut = None
  /\ swOut' = calculateSentimentWeights(swIn)
  /\ UNCHANGED <<env, now, ticks, cache, calls, started, clears, last,
                 lastClear, swIn, cfg, screen>>

SpecSentiment == InitSentiment /\ [][ApplySentimentWeights]_vars

\* --------------------------------------------------- overlapping calls
\* Two callers at once (two screens, or a screen that loads again): the
\* calls of the cache scenario, for one ticker, in two slots.
OverlapEnv == [CacheEnv EXCEPT !.slots = {1, 2}, !.tickers = {"aapl"}]

InitOverlap ==
  InitWith(OverlapEnv) /\ swIn = JList(<<>>) /\ swOut = None
    /\ cfg = IdleConfig

SpecOverlap == InitOverlap /\ [][Next]_vars

\* ------------------------------------------------------ a screen load
\* The calls of StockDetailsScreen for one ticker: getStockInfo,
\* getPredictions and getNews, one after the other or at once as in
\* loadStockData, at one instant.  A quote request is answered with the
\* quote or fails.
LoadEnv ==
  [CacheEnv EXCEPT
     !.slots = {1, 2, 3}, !.tickers = {"aapl"}, !.calls = MaxCalls + 1,
     !.stock = {[kind |-> "status"]} \cup Ok({BackendQuote}),
     !.news = Ok({JList(<<>>)}),
     !.gatherStock = {[kind |-> "status"]} \cup Ok({BackendQuote}),
     !.forecast = Ok({BackendForecast(3)})]

InitLoad ==
  InitWith(LoadEnv) /\ swIn = JList(<<>>) /\ swOut = None /\ cfg = IdleConfig

NextLoad ==
  \/ \E c \in env.slots, t \in Tickers : GetStockInfo(c, t)
  \/ \E c \in env.slots, t \in Tickers : GetNews(c, t)
  \/ \E c \in env.slots, t \in Tickers : GetPredictions(c, t)
  \/ \E c \in env.slots, s \in env.streams, o \in env.stock :
       StockDataSettles(c, o, s)
  \/ \E c \in env.slots, s \in env.streams, o \in env.gatherStock :
       GatherStockData(c, o, s)
  \/ \E c \in env.slots, s \in env.streams, o \in env.gatherHistorical :
       GatherHistoricalData(c, o, s)
  \/ \E c \in env.slots, o \in env.news : NewsDataSettles(c, o)
  \/ \E c \in env.slots, s \in env.streams, o \in env.gatherNews :
       GatherNews(c, o, s)
  \/ \E c \in env.slots, s \in env.streams, o \in env.forecast :
       ForecastSettles(c, o, s)
  \/ \E c \in env.slots, s \in env.streams : PredictionsContinue(c, s)

SpecLoad == InitLoad /\ [][NextLoad]_vars

\* ------------------------------------------------------ the configuration
InitConfig ==
  /\ InitWith(CacheEnv)
  /\ swIn = JList(<<>>)
  /\ swOut = None
  /\ \E i \in ConfigInputs : cfg = [IdleConfig EXCEPT !.vIn = i]

GetModelConfig(environment) ==
  LET r == getModelConfig(environment, cfg.objects)
  IN /\ cfg' = [cfg EXCEPT !.objects = r.objects,
                           !.got = [kind |-> "config",
                                    environment |-> environment,
                                    config |-> r.config]]
     /\ UNCHANGED <<env, now, ticks, cache, calls, started, clears, last,
                    lastClear, swIn, swOut, screen>>

ValidateModelConfig ==
  /\ cfg.vOut = None
  /\ cfg' = [cfg EXCEPT !.vOut = Value(validateModelConfig(cfg.vIn))]
  /\ UNCHANGED <<env, now, ticks, cache, calls, started, clears, last,
                 lastClear, swIn, swOut, screen>>

NextConfig ==
  \/ \E e \in Environments : GetModelConfig(e)
  \/ ValidateModelConfig

SpecConfig == InitConfig /\ [][NextConfig]_vars

\* ------------------------------------------------------------ the screen
\* The route's ticker changes: the component renders again and the effect
\* on [ticker] runs loadStockData.
TickerChanges(t) ==
  /\ t # screen.ticker
  /\ screen.started < MaxLoads
  /\ screen' = loadStockData([screen EXCEPT !.ticker = t])
  /\ UNCHANGED <<env, now, ticks, cache, calls, started, clears, last,
                 lastClear, swIn, swOut, cfg>>

\* The Refresh button is on the screen when it shows a stock
HandleRefresh ==
  /\ ~screen.loading
  /\ screen.stockData # JNull
  /\ screen.started < MaxLoads
  /\ screen' = loadStockData(screen)
  /\ UNCHANGED <<env, now, ticks, cache, calls, started, clears, last,
                 lastClear, swIn, swOut, cfg>>

\* The three calls of a load have resolved: loadStockData goes on after its
\* await, through the three setters and the finally block.
LoadContinues(load) ==
  /\ load \in screen.loads
  /\ screen' = [screen EXCEPT !.stockData = Loaded("stock", load),
                              !.predictions = Loaded("predictions", load),
                              !.news = Loaded("news", load),
                              !.loading = FALSE,
                              !.loads = @ \ {load}]
  /\ UNCHANGED <<env, now, ticks, cache, calls, started, clears, last,
                 lastClear, swIn, swOut, cfg>>

InitScreen ==
  InitWith(CacheEnv) /\ swIn = JList(<<>>) /\ swOut = None /\ cfg = IdleConfig

NextScreen ==
  \/ \E t \in Tickers : TickerChanges(t)
  \/ HandleRefresh
  \/ \E load \in screen.loads : LoadContinues(load)

SpecScreen == InitScreen /\ [][NextScreen]_vars

\* ------------------------------------------------------------ the claims
\* The calls there are to look at: those in flight and the one that resolved last
Seen == {calls[c] : c \in Slots} \cup {last}
Resolved(r) == r.pc = "done"
IsFraction(w, num, den) == w.d # 0 /\ w.n * den = num * w.d

\* C1: getStockInfo, getPredictions and getNews return a cached payload only
\* when now - entry.timestamp < cacheTimeout; an entry whose age is at least
\* cacheTimeout (also exactly cacheTimeout) is a miss and is never returned:
\* the call fetches and returns a value of its own.
C1_CachedOnlyWhenFresh ==
  \A r \in Seen :
    /\ r.hit => r.age >= 0 /\ r.age < cacheTimeout
    /\ (Resolved(r) /\ r.ret.kind = "value" /\ r.ret.v.id # r.no)
         => r.hit /\ r.age >= 0 /\ r.age < cacheTimeout
    /\ (r.pc # "idle" /\ r.age >= cacheTimeout) => ~r.hit

C1_Witness ==
  Resolved(last) /\ ~last.hit /\ last.age = cacheTimeout
    /\ last.ret.kind = "value" /\ last.ret.v.id = last.no

\* C2: two sequential getStockInfo(ticker) calls within the TTL, with no
\* clearCache in between, cause at most one getStockData(ticker) call: when
\* the first one fetched, the second one does not.
C2_AtMostOneProviderCall ==
  \A r \in Seen :
    (r.op = "stock" /\ r.prev # None /\ r.prev.within /\ r.prev.fetched)
      => r.hit

\* C3: with no clearCache in between, a call of getStockInfo / getPredictions
\* / getNews that resolves within one TTL of the moment the value of the
\* previous call for the same ticker was cached or returned, returns that
\* same object, on every path.
C3_SamePayloadWithinWindow ==
  (Resolved(last) /\ last.prev # None /\ last.prev.inWindow)
    => last.ret.kind = "value" /\ last.ret.v.id = last.prev.id

\* C4: clearCache removes every entry of every category and ticker: from its
\* return until the next cache.set, getCacheStats reports size 0 and no
\* keys, and every call started then, for any ticker and category, is a miss.
C4_ClearCacheEmpties ==
  /\ lastClear # None =>
       getCacheStats(cache).size = 0 /\ getCacheStats(cache).keys = {}
  /\ \A r \in Seen : r.cleared >= 0 => ~r.hit /\ r.age = -1

C4_Witness ==
  /\ lastClear # None /\ lastClear.removed >= 1
  /\ Resolved(last) /\ last.cleared >= 1 /\ ~last.hit

\* C5: whatever the four backend calls do (transport error, non-success
\* status, unparsable body, any parsed body), getStockInfo, getPredictions
\* and getNews resolve to a value and never reject.
C5_NeverRejects ==
  Resolved(last) => last.ret.kind = "value"

C5_Witness ==
  /\ Resolved(last) /\ last.op = "predictions"
  /\ last.h = JNull /\ last.f.kind = "ok" /\ last.f.body = JEmptyObject
  /\ last.ret.kind = "value"

\* C6: getStockData, getHistoricalData and getNewsWithSentiment return
\* synthetic data whenever the backend call fails, also by a malformed body:
\* what they hand to their caller is never malformed (a quote object, a
\* list of bars, a list of articles labelled positive, negative or neutral).
C6_ProviderDataWellFormed ==
  \A r \in Seen :
    /\ r.q # None => r.q.kind = "quote"
    /\ r.h # None => IsList(r.h)
    /\ r.n # None =>
         /\ IsList(r.n)
         /\ \A i \in 1..Len(r.n.items) : r.n.items[i].sentiment \in Labels

\* C7: if the forecast request fails, getPredictions still resolves to a
\* value with exactly 3 forecast points, and every point of the synthetic
\* PredictionResult has upperBound >= predictedPrice >= lowerBound.
C7_ForecastFailureFallback ==
  \A r \in Seen :
    (r.op = "predictions" /\ r.f = [kind |-> "failed"]) =>
      /\ r.pc \in {"modelResult", "done"}
      /\ IsList(r.mr.predictions)
      /\ Len(r.mr.predictions.items) = 3
      /\ \A i \in 1..Len(r.mr.predictions.items) :
           LET p == r.mr.predictions.items[i]
           IN p.upperBound >= p.predictedPrice
                /\ p.predictedPrice >= p.lowerBound
      /\ Resolved(r) =>
           r.ret.kind = "value" /\ Len(r.ret.v.predictions) = 3

C7_Witness ==
  /\ Resolved(last) /\ last.op = "predictions"
  /\ last.f = [kind |-> "failed"]
  /\ Len(last.ret.v.predictions) = 3

\* generatePredictions answered from its catch block
CatchTaken(r) ==
  r.f = None \/ r.f.kind = "failed" \/ ~CanRead(r.f.body) \/ ~CanRead(r.q)

\* C8 as stated: when the news source yields an empty article list, getNews
\* returns an empty list and the PredictionResult of a prediction for that
\* ticker carries the empty-set prior {0.33, 0.33, 0.34, 0}, whatever the
\* outcome of the forecast call.
C8_PriorWhateverForecast ==
  \A r \in Seen :
    /\ (Resolved(r) /\ r.op = "news" /\ r.n = JList(<<>>))
         => r.ret.v.items = <<>>
    /\ (r.op = "predictions" /\ r.n = JList(<<>>) /\ r.mr # None) =>
         /\ IsFraction(r.mr.sentimentWeights.positive, 33, 100)
         /\ IsFraction(r.mr.sentimentWeights.negative, 33, 100)
         /\ IsFraction(r.mr.sentimentWeights.neutral, 34, 100)
         /\ IsFraction(r.mr.sentimentWeights.overallSentiment, 0, 1)

\* C8 amended: when the news source yields an empty article list, getNews
\* returns an empty list, and the PredictionResult carries the empty-set
\* prior when generatePredictions assembles it from the forecast answer; when
\* generatePredictions answers from its catch block (the forecast request
\* failed or answered null, or the quote is null) it carries the synthetic
\* weights {0.4, 0.3, 0.3, 0.15}.
C8_PriorUnlessCatch ==
  \A r \in Seen :
    /\ (Resolved(r) /\ r.op = "news" /\ r.n = JList(<<>>))
         => r.ret.v.items = <<>>
    /\ (r.op = "predictions" /\ r.n = JList(<<>>) /\ r.mr # None) =>
         IF CatchTaken(r)
         THEN /\ IsFraction(r.mr.sentimentWeights.positive, 4, 10)
              /\ IsFraction(r.mr.sentimentWeights.negative, 3, 10)
              /\ IsFraction(r.mr.sentimentWeights.neutral, 3, 10)
              /\ IsFraction(r.mr.sentimentWeights.overallSentiment, 15, 100)
         ELSE /\ IsFraction(r.mr.sentimentWeights.positive, 33, 100)
              /\ IsFraction(r.mr.sentimentWeights.negative, 33, 100)
              /\ IsFraction(r.mr.sentimentWeights.neutral, 34, 100)
              /\ IsFraction(r.mr.sentimentWeights.overallSentiment, 0, 1)

C8_Witness ==
  \E c \in Slots :
    /\ calls[c].pc = "modelResult" /\ calls[c].n = JList(<<>>)
    /\ ~CatchTaken(calls[c])
    /\ calls[c].f.body = BackendForecast(3)

\* C9: calculateSentimentWeights of an empty article sequence returns
\* exactly {positive 0.33, negative 0.33, neutral 0.34, overallSentiment 0}.
C9_EmptyPrior ==
  (swOut # None /\ swIn = JList(<<>>)) =>
    /\ swOut.kind = "value"
    /\ IsFraction(swOut.v.positive, 33, 100)
    /\ IsFraction(swOut.v.negative, 33, 100)
    /\ IsFraction(swOut.v.neutral, 34, 100)
    /\ IsFraction(swOut.v.overallSentiment, 0, 1)

C9_Witness == swOut # None /\ swIn = JList(<<>>)

LabelCount(items, label) ==
  Cardinality({i \in 1..Len(items) : items[i].sentiment = label})

\* C10: for every non-empty article list that getNewsWithSentiment can hand
\* over, each weight is the number of articles with that label over the
\* number of articles, and positive + negative + neutral = 1.
C10_WeightsSumToOne ==
  (swOut # None /\ IsList(swIn) /\ Len(swIn.items) > 0) =>
    LET total == Len(swIn.items)
        w == swOut.v
    IN /\ swOut.kind = "value"
       /\ IsFraction(w.positive, LabelCount(swIn.items, "positive"), total)
       /\ IsFraction(w.negative, LabelCount(swIn.items, "negative"), total)
       /\ IsFraction(w.neutral, LabelCount(swIn.items, "neutral"), total)
       /\ w.positive.d = total /\ w.negative.d = total /\ w.neutral.d = total
       /\ w.positive.n + w.negative.n + w.neutral.n = total

\* The sum of the finbertScore values, taken from the last article to the first
RECURSIVE SumFinbert(_, _)
SumFinbert(items, i) ==
  IF i = 0 THEN 0 ELSE items[i].finbertScore + SumFinbert(items, i - 1)

WithSentimentScore(items, ss) ==
  [i \in 1..Len(items) |-> [items[i] EXCEPT !.sentimentScore = ss]]
Reversed(items) == [i \in 1..Len(items) |-> items[Len(items) + 1 - i]]
SameFraction(v, w) == v.n * w.d = w.n * v.d

C12_NewsProjection ==
  (Resolved(last) /\ last.op = "news" /\ ~last.hit) =>
    /\ last.ret.kind = "value"
    /\ IsList(last.n)
    /\ Len(last.ret.v.items) = Len(last.n.items)
    /\ \A i \in 1..Len(last.n.items) :
         LET article == last.n.items[i]
             item == last.ret.v.items[i]
         IN /\ item.sentimentScore = article.finbertScore
            /\ item.id = article.id
            /\ item.headline = article.headline
            /\ item.summary = article.summary
            /\ item.sentiment = article.sentiment
            /\ item.source = article.source
            /\ item.publishedAt = article.publishedAt

\* C13: the quote cache key is built from the normalized ticker: a
\* getStockInfo call whose ticker differs only in letter case from the ticker
\* of an entry that is fresh when the call starts is a hit and issues no
\* getStockData call.
C13_CaseInsensitiveKey ==
  \A r \in Seen :
    (r.op = "stock" /\ r.pc = "stockData") =>
      \A t \in Tickers :
        (toUpperCase(t) = toUpperCase(r.ticker)
           /\ cacheKey("stock", t) \in DOMAIN cache)
          => r.startAt - cache[cacheKey("stock", t)].timestamp >= cacheTimeout

\* Ticker strings that could make two keys meet: empty, the separator, a
\* category name, a whole key
KeyTickers ==
  Tickers \cup {"", "_", "stock", "news", "predictions", "stock_", "_stock",
                "stock_aapl", "news_aapl", "predictions_aapl", "aapl_news"}

\* The call that resolves in this step, if any
ResolvesHere == Resolved(last') /\ last'.no # last.no

\* C14: keys of different categories never collide for any pair of ticker
\* strings, and a call of getStockInfo / getPredictions / getNews for ticker t
\* reads and writes only the entry keyed by its own category and t: a step
\* that is not clearCache leaves every other entry unchanged in payload and
\* timestamp, and a hit returns the payload of the call's own entry.
C14_KeysAndFrame ==
  /\ \A c1, c2 \in Categories, t1, t2 \in KeyTickers :
       cacheKey(c1, t1) = cacheKey(c2, t2) => c1 = c2 /\ t1 = t2
  /\ [][/\ clears' = clears =>
            \A k \in DOMAIN cache \cup DOMAIN cache' :
              \/ k \in DOMAIN cache /\ k \in DOMAIN cache'
                   /\ cache'[k] = cache[k]
              \/ ResolvesHere /\ ~last'.hit
                   /\ k = cacheKey(last'.op, last'.ticker)
        /\ (ResolvesHere /\ last'.hit) =>
            /\ cache' = cache
            /\ last'.ret.v = cache[cacheKey(last'.op, last'.ticker)].data]_vars

C14_Witness ==
  /\ Resolved(last) /\ ~last.hit /\ last.op = "news"
  /\ DOMAIN cache = {cacheKey("stock", last.ticker),
                     cacheKey("news", last.ticker)}
  /\ cache[cacheKey("stock", last.ticker)].timestamp < now
  /\ cache[cacheKey("news", last.ticker)].timestamp = now

\* C15: in generatePredictions the quote, historical and news fetches are
\* started together, before any of them has completed, and neither the
\* sentiment weighting nor the forecast request (nor the catch block) starts
\* before all three have completed, in whatever order they complete.
C15_ForecastAfterAllFetches ==
  \A r \in Seen :
    (r.op = "predictions" /\ ~r.hit) =>
      /\ r.pc # "idle" => {"stock", "historical", "news"} \subseteq r.req
      /\ (r.sw # None \/ r.f # None \/ r.mr # None \/ "predict" \in r.req
            \/ r.pc \in {"forecast", "modelResult", "done"})
           => r.q # None /\ r.h # None /\ r.n # None

C15_Witness ==
  \E c \in Slots :
    /\ calls[c].pc = "forecast" /\ "predict" \in calls[c].req
    /\ calls[c].sw # None
    /\ calls[c].q = BackendQuote /\ IsList(calls[c].h) /\ IsList(calls[c].n)

\* C16: a getPredictions(ticker) call in flight whose caller has abandoned it
\* is not cancelled: it goes on through its fetches and, once it has
\* finished, the predictions_<ticker> entry is in the cache and fresh, so
\* that a later call within the TTL is a hit.
C16_AbandonedCallPopulates ==
  /\ \A c \in Slots :
       calls[c].abandoned => calls[c].pc # "idle" /\ calls[c].req # {}
  /\ (Resolved(last) /\ last.op = "predictions" /\ last.abandoned) =>
       isFresh(cache, cacheKey("predictions", last.ticker), now)

\* C17: on every cache miss, the value that getStockInfo, getPredictions or
\* getNews returns is the value stored in the cache under the call's category
\* and ticker, also when it is a fallback, so that a call for the same key
\* that follows immediately is a hit returning that value.
C17_MissValueIsCached ==
  (Resolved(last) /\ ~last.hit) =>
    /\ last.ret.kind = "value"
    /\ isFresh(cache, cacheKey(last.op, last.ticker), now)
    /\ cache[cacheKey(last.op, last.ticker)].data = last.ret.v

\* C18: every result of getPredictions has exactly 7 date labels in
\* ascending order: the 4 days today-3 .. today of the historical values,
\* then the 3 forecast days today+1 .. today+3, today being the day the
\* result was made; on the success path and on every fallback path.
C18_SevenDateLabels ==
  (Resolved(last) /\ last.op = "predictions") =>
    /\ last.ret.kind = "value"
    /\ Len(last.ret.v.dates) = 7
    /\ \A i \in 1..7 :
         last.ret.v.dates[i] = DateLabel(Today(env.zone, last.ts) + i - 4)

WellFormedSeries(h) ==
  /\ IsList(h)
  /\ Len(h.items) >= 31
  /\ \A i \in 1..(Len(h.items) - 1) : h.items[i].date < h.items[i + 1].date
  /\ \A i \in 1..Len(h.items) :
       LET bar == h.items[i]
       IN /\ bar.high >= bar.open /\ bar.high >= bar.close
          /\ bar.low <= bar.open /\ bar.low <= bar.close

\* C19: every synthetic historical series that getMockHistoricalData produces
\* (the answer of getHistoricalData when its request fails, and the series of
\* the synthetic PredictionResult) has at least 31 bars, strictly ascending
\* dates, and in every bar high >= max(open, close) and low <= min(open,
\* close), whatever values Math.random returns.  The date of a bar is the
\* UTC day of the instant that setDate makes in local time.
C19_MockSeriesWellFormed ==
  \A r \in Seen :
    r.op = "predictions" =>
      /\ (r.h # None /\ r.h \notin HistoricalBodies) => WellFormedSeries(r.h)
      /\ (r.mr # None /\ CatchTaken(r)) => WellFormedSeries(r.mr.historical)

SyntheticQuoteOk(quote, ticker) ==
  /\ quote.volume >= 0
  /\ quote.currentPrice > 0
  /\ quote.symbol = toUpperCase(ticker)
  /\ quote.name = toUpperCase(ticker) \o " Corporation"

\* C20: every synthetic quote made by getMockStockData (the quote request
\* failed) or by getFallbackStockInfo (the catch of getStockInfo) has volume
\* >= 0 and currentPrice > 0 whatever values Math.random returns; its symbol
\* is the uppercased ticker of the call and its name that symbol followed by
\* ' Corporation', whatever calls came before.
C20_SyntheticQuote ==
  \A r \in Seen :
    (r.op = "stock" /\ r.q # None) =>
      /\ r.q # JNull => SyntheticQuoteOk(r.q, r.ticker)
      /\ (Resolved(r) /\ ~r.hit) =>
           r.ret.kind = "value" /\ SyntheticQuoteOk(r.ret.v, r.ticker)

C20_Witness ==
  /\ Resolved(last) /\ last.op = "stock" /\ last.no = 2 /\ ~last.hit
  /\ last.ticker = "msft" /\ last.q = JNull
  /\ last.ret.v.symbol = "MSFT" /\ last.ret.v.volume = 0
  /\ cacheKey("stock", "aapl") \in DOMAIN cache
  /\ cache[cacheKey("stock", "aapl")].data.symbol = "AAPL"

\* The ranges of the validated fields, as sets of numbers: NaN is in none
AtLeastOne(x) == x # NaN /\ x >= 1
InUnitInterval(x) == x # NaN /\ 0 <= x /\ x < 1000
Positive(x) == x # NaN /\ x > 0
RangeViolations(config) ==
  {f \in {"sequenceLength", "hiddenUnits", "layers", "dropout", "epochs",
          "batchSize", "learningRate", "validationSplit", "features",
          "testSize", "predictionDays"} :
     CASE f = "sequenceLength" -> ~AtLeastOne(config.lstm.sequenceLength)
       [] f = "hiddenUnits" -> ~AtLeastOne(config.lstm.hiddenUnits)
       [] f = "layers" -> ~AtLeastOne(config.lstm.layers)
       [] f = "dropout" -> ~InUnitInterval(config.lstm.dropout)
       [] f = "epochs" -> ~AtLeastOne(config.training.epochs)
       [] f = "batchSize" -> ~AtLeastOne(config.training.batchSize)
       [] f = "learningRate" -> ~Positive(config.training.learningRate)
       [] f = "validationSplit" ->
            ~InUnitInterval(config.training.validationSplit)
       [] f = "features" -> Len(config.data.features) = 0
       [] f = "testSize" -> ~InUnitInterval(config.data.testSize)
       [] f = "predictionDays" -> ~AtLeastOne(config.data.predictionDays)}
HasNaN(config) ==
  NaN \in {config.lstm.sequenceLength, config.lstm.dropout}

\* C21: validateModelConfig returns a list (it does not throw) with one
\* message per validated field that is outside its range, so the list is
\* empty exactly when every range holds; the default configuration yields
\* the empty list.
C21_MessagesMatchRanges ==
  /\ validateModelConfig(Deref(defaultModelConfig, defaultObjects)) = <<>>
  /\ cfg.vOut # None =>
       /\ cfg.vOut.kind = "value"
       /\ Len(cfg.vOut.v) = Cardinality(RangeViolations(cfg.vIn))
       /\ (cfg.vOut.v = <<>>) <=> (RangeViolations(cfg.vIn) = {})

\* The same for configurations whose numbers are all numbers other than NaN
C21_MessagesMatchRangesOfNumbers ==
  (cfg.vOut # None /\ ~HasNaN(cfg.vIn)) =>
    /\ cfg.vOut.kind = "value"
    /\ Len(cfg.vOut.v) = Cardinality(RangeViolations(cfg.vIn))
    /\ (cfg.vOut.v = <<>>) <=> (RangeViolations(cfg.vIn) = {})

\* C26: getModelConfig leaves defaultModelConfig at its initial values, and
\* the configuration it returns for 'production' reads epochs 100,
\* sequenceLength 60, maxArticles 50 and cacheTimeout 300000, whatever was
\* requested before.
C26_DefaultsUntouched ==
  /\ Deref(defaultModelConfig, cfg.objects)
       = Deref(defaultModelConfig, defaultObjects)
  /\ (cfg.got # None /\ cfg.got.environment = "production") =>
       LET config == Deref(cfg.got.config, cfg.objects)
       IN /\ config.training.epochs = 100
          /\ config.lstm.sequenceLength = 60
          /\ config.news.maxArticles = 50
          /\ config.api.cacheTimeout = 300000

\* What the screen shows belongs to ticker t
ShowsTicker(s, t) ==
  /\ s.stockData.kind = "data" /\ s.stockData.ticker = t
  /\ s.predictions.kind = "data" /\ s.predictions.ticker = t
  /\ s.news.kind = "data" /\ s.news.ticker = t

\* C29: once every started loadStockData has completed, the stock data, the
\* prediction and the news on the screen belong to the current ticker and
\* loading is false; and loading does not turn false while a load started
\* later than the completing one is still in flight.
C29_ScreenFollowsLatestLoad ==
  /\ [](screen.loads = {} =>
          ~screen.loading /\ ShowsTicker(screen, screen.ticker))
  /\ [][(screen.loading /\ ~screen'.loading) =>
          \A done \in screen.loads \ screen'.loads :
            \A l \in screen'.loads : l.no < done.no]_vars

\* C22: a call sends at most one request to each endpoint, whatever the
\* requests answer: a call that missed has sent exactly one request for each
\* fetch it made (one for getStockInfo and getNews, three for getPredictions)
\* and exactly one forecast request once it has reached the forecast step,
\* a request that failed is not sent again, and a cache hit sends none.
C22_OneRequestEach ==
  \A r \in Seen :
    r.pc # "idle" =>
      /\ \A e \in Endpoints : r.sent[e] <= 1
      /\ \A e \in Endpoints \ {"predict"} :
           r.sent[e] = IF ~r.hit /\ e \in Requests(r.op) THEN 1 ELSE 0
      /\ r.sent["predict"] = IF r.sw # None THEN 1 ELSE 0

\* A getPredictions call has resolved after its quote request and its
\* forecast request both failed
C22_Witness ==
  /\ Resolved(last) /\ last.op = "predictions"
  /\ last.f = [kind |-> "failed"]
  /\ \E s \in env.streams : last.q = getMockStockData(last.ticker, s)
  /\ \A e \in Endpoints : last.sent[e] = 1

\* C23, the call on a stale entry: it is a miss that fetches, and when it
\* has completed the entry holds the call's own payload and the time of
\* its completion.
StaleEntryIsReplaced ==
  (Resolved(last) /\ last.age >= cacheTimeout) =>
    LET key == cacheKey(last.op, last.ticker)
    IN /\ ~last.hit /\ last.req # {}
       /\ key \in DOMAIN cache
       /\ cache[key].data.id = last.no
       /\ cache[key].timestamp = last.ts

\* C23, the frame: the cache changes only by the cache.set of the call that
\* completes in the step, on that call's own key, or by clearCache; a step
\* of the clock changes nothing, however old the entries are.
OnlySetAndClearChangeCache ==
  /\ cache' # cache =>
       \/ clears' = clears + 1 /\ DOMAIN cache' = {}
       \/ /\ ResolvesHere /\ ~last'.hit /\ last'.ret.kind = "value"
          /\ cache' = cacheSet(cache, cacheKey(last'.op, last'.ticker),
                               last'.ret.v, now)
  /\ now' # now => cache' = cache

\* C23: per ticker and category the entry goes ABSENT -> FRESH -> STALE ->
\* FRESH: a call that finds a stale entry fetches and, when it completes,
\* overwrites the entry with its payload and a new timestamp; nothing but
\* the owning call's cache.set and clearCache changes an entry, and
\* staleness alone never removes it.
C23_EntryLifecycle ==
  [](StaleEntryIsReplaced) /\ [][OnlySetAndClearChangeCache]_vars

C23_FrameOnly == [][OnlySetAndClearChangeCache]_vars

\* C24: two calls for one category and ticker that overlap (both have missed
\* before either has written) each send their own requests, and once both
\* have completed the entry holds the payload and the timestamp of the one
\* that completed last, as that call returned it: nothing is merged.
C24_LastCompletedWins ==
  /\ \A r \in Seen :
       r.over # {} =>
         /\ ~r.hit
         /\ \A e \in Requests(r.op) : r.sent[e] = 1
  /\ (Resolved(last) /\ last.over # {}
        /\ \A c \in Slots : calls[c].no \notin last.over) =>
       LET key == cacheKey(last.op, last.ticker)
       IN /\ key \in DOMAIN cache
          /\ cache[key].data = last.ret.v
          /\ cache[key].data.id = last.no
          /\ cache[key].timestamp = last.ts

\* C25: when the forecast request fails, the PredictionResult of
\* generatePredictions is the one getMockPredictionResult makes for the
\* ticker: current price, bars, forecast points, metrics, sentiment weights,
\* trend and confidence are all synthetic, and nothing in it is taken from
\* the quote, the history or the news the same call has fetched.
C25_ForecastFailureIsGlobal ==
  \A r \in Seen :
    (r.op = "predictions" /\ r.f = [kind |-> "failed"] /\ r.mr # None) =>
      /\ \E s \in env.streams :
           r.mr = getMockPredictionResult(r.ticker, s, now)
      /\ r.mr.currentPrice = 150000
      /\ r.mr.sentimentWeights = MockSentimentWeights
      /\ (~IsList(r.h) \/ Len(r.h.items) # 31) => r.mr.historical # r.h

\* The forecast request has failed after a quote, a history and news
\* articles had been fetched from the backend
C25_Witness ==
  \E c \in Slots :
    /\ calls[c].op = "predictions" /\ calls[c].mr # None
    /\ calls[c].f = [kind |-> "failed"]
    /\ calls[c].q = BackendQuote
    /\ IsList(calls[c].h) /\ Len(calls[c].h.items) = 5
    /\ IsList(calls[c].n) /\ Len(calls[c].n.items) > 0
    /\ calls[c].sw # MockSentimentWeights

\* C28: clearCache leaves the calls in flight alone; a call that missed
\* before a clearCache and completes after it writes its entry, with its
\* payload and the time of its completion, so that the cache is not empty
\* although no call has started since the clear; and a call for the same
\* ticker that starts within the TTL of that entry is served that value.
C28_ClearSparesCallsInFlight ==
  /\ [][clears' # clears => calls' = calls]_vars
  /\ []((Resolved(last) /\ ~last.hit /\ last.clearsAt < clears) =>
          LET key == cacheKey(last.op, last.ticker)
          IN /\ key \in DOMAIN cache
             /\ cache[key].data = last.ret.v
             /\ cache[key].timestamp = last.ts)
  /\ [](\A r \in Seen :
          (r.pc # "idle" /\ r.prev # None /\ r.prev.acrossClear
             /\ r.prev.fetched /\ r.prev.fresh) =>
            /\ r.hit
            /\ Resolved(r) => r.ret.v.id = r.prev.id)

\* The entry of a call that was in flight across a clearCache is in the
\* cache, and the next call has been served it
C28_Resurrected ==
  /\ Resolved(last) /\ last.hit /\ last.prev # None
  /\ last.prev.acrossClear /\ last.prev.fetched
  /\ last.ret.v.id = last.prev.id
  /\ clears = 1 /\ last.clearsAt = 1

\* C30: every result of getPredictions has as many date labels as it has
\* historical values and predicted values together, also when the backend
\* returns fewer than 4 bars or a number of forecast points other than 3.
C30_LabelsMatchValues ==
  (Resolved(last) /\ last.op = "predictions") =>
    /\ last.ret.kind = "value"
    /\ Len(last.ret.v.dates)
         = Len(last.ret.v.historical) + Len(last.ret.v.predictions)

\* The same for the results made from 4 or more bars and 3 forecast points,
\* and for the results of the catch blocks
C30_LabelsMatchFullSeries ==
  (Resolved(last) /\ last.op = "predictions"
     /\ (CatchTaken(last)
           \/ (IsList(last.h) /\ Len(last.h.items) >= 4
                 /\ IsList(Get(last.f.body, "predictions"))
                 /\ Len(last.f.body.predictions.items) = 3))) =>
    /\ last.ret.kind = "value"
    /\ Len(last.ret.v.dates)
         = Len(last.ret.v.historical) + Len(last.ret.v.predictions)

\* The requests the calls in flight have sent to an endpoint
RECURSIVE SentBy(_, _)
SentBy(slots, e) ==
  IF slots = {} THEN 0
  ELSE LET c == CHOOSE d \in slots : TRUE
       IN calls[c].sent[e] + SentBy(slots \ {c}, e)

\* C27: a getPredictions call that misses sends its own quote, history and
\* news requests whatever entries the cache holds, fresh stock_ and news_
\* entries of its ticker included; so the three calls of one screen load on
\* an empty cache have sent two quote requests and two news requests for
\* the ticker.  (The price in the prediction can then differ from the price
\* in the cached quote: the witness.)
C27_PredictionFetchesItsOwn ==
  /\ \A r \in Seen :
       (r.op = "predictions" /\ r.pc # "idle" /\ ~r.hit) =>
         /\ r.sent["stock"] = 1
         /\ r.sent["historical"] = 1
         /\ r.sent["news"] = 1
  /\ (/\ \A c \in Slots : calls[c].pc # "idle" /\ calls[c].found = {}
      /\ {calls[c].op : c \in Slots} = Categories
      /\ \A c, d \in Slots : calls[c].ticker = calls[d].ticker) =>
       /\ SentBy(Slots, "stock") = 2
       /\ SentBy(Slots, "news") = 2
       /\ SentBy(Slots, "historical") = 1

\* A getPredictions call that found fresh stock_ and news_ entries of its
\* ticker has fetched its own quote, and its result carries a current price
\* other than the cached quote's
C27_Witness ==
  /\ Resolved(last) /\ last.op = "predictions" /\ ~last.hit
  /\ {cacheKey("stock", last.ticker), cacheKey("news", last.ticker)}
       \subseteq last.found
  /\ last.sent["stock"] = 1 /\ last.sent["news"] = 1
  /\ last.mr.currentPrice
       # cache[cacheKey("stock", last.ticker)].data.currentPrice

\* The three calls of a screen load are in flight on an empty cache
C27_ScreenLoad ==
  /\ \A c \in Slots : calls[c].pc # "idle" /\ calls[c].found = {}
  /\ {calls[c].op : c \in Slots} = Categories
  /\ SentBy(Slots, "stock") = 2

====
